---- MODULE Spec2Model ----
(***************************************************************************)
(* Model of the insight pipeline of python/insightGenerator.py and of the  *)
(* /analyze endpoint of python-service/main.py.  The two are separate      *)
(* programs: every action changes the variables of one and leaves the      *)
(* other's alone.                                                          *)
(*                                                                         *)
(* A DataFrame is abstracted to what the code reads from it:               *)
(*   nrows   len(df)                                                       *)
(*   objs    the object-dtype columns, in column order                     *)
(*   nums    the numeric-dtype columns, in column order                    *)
(*   others  the number of columns of any other dtype (bool, datetime64)   *)
(*   corr    the matrix df[numeric_cols].corr() as pandas returns it       *)
(* select_dtypes keeps the relative order of the columns it selects, so    *)
(* the two sequences carry all the ordering the code depends on.           *)
(*                                                                         *)
(* Numbers: correlation coefficients are integers in units of 1/10000,     *)
(* rounded correlations in units of 1/1000, percentages rounded to one     *)
(* decimal in units of 1/10 percent.  Inputs are chosen off the rounding   *)
(* ties, where binary floating point and exact arithmetic could differ.    *)
(***************************************************************************)
EXTENDS Integers, Sequences, FiniteSets, TLC

VARIABLES df, HAS_SCIPY, entry, csv_exists, quality_threshold, pc, ran,
          basic_stats, trends, outliers, correlations, segments,
          quality_score, report, outcome,
          Gcf, figures, calls

vars == <<df, HAS_SCIPY, entry, csv_exists, quality_threshold, pc, ran,
          basic_stats, trends, outliers, correlations, segments,
          quality_score, report, outcome,
          Gcf, figures, calls>>

(* the state of insightGenerator.py *)
pipeline_vars == <<df, HAS_SCIPY, entry, csv_exists, quality_threshold, pc,
                   ran, basic_stats, trends, outliers, correlations,
                   segments, quality_score, report, outcome>>

(* the state of the python-service process: pyplot's module-level figure   *)
(* registry and the calls of analyze in flight                             *)
service_vars == <<Gcf, figures, calls>>

----------------------------------------------------------------------------
(* Arithmetic helpers                                                      *)

Abs(x) == IF x < 0 THEN -x ELSE x

Min2(a, b) == IF b < a THEN b ELSE a

Max2(a, b) == IF b > a THEN b ELSE a

(* round(n / d) for d > 0, ties to even, as Python's round() *)
RoundDiv(n, d) ==
    LET q == n \div d
        r == n % d
    IN  IF 2 * r < d THEN q
        ELSE IF 2 * r > d THEN q + 1
        ELSE IF q % 2 = 0 THEN q ELSE q + 1

(* s[:k] *)
Take(s, k) == IF Len(s) <= k THEN s ELSE SubSeq(s, 1, k)

----------------------------------------------------------------------------
(* detect_trends                                                           *)

(* trend_direction, from the unrounded overall growth (last-first)/|first|*100 *)
trend_direction(first, last) ==
    IF first = 0 THEN "stable"
    ELSE IF (last - first) * 100 > 5 * Abs(first) THEN "growth"
    ELSE IF (last - first) * 100 < (-5) * Abs(first) THEN "decline"
    ELSE "stable"

(* the change taken relative to the later value *)
change_pct_vs_last(a, b) ==
    IF b = 0 THEN 0 ELSE RoundDiv((b - a) * 1000, Abs(b))

(* round(((b - a) / abs(a)) * 100, 1) if a != 0 else 0, in tenths of a percent *)
change_pct(a, b) ==
    IF a = 0 THEN 0 ELSE RoundDiv((b - a) * 1000, Abs(a))

(* min(100, max(50, 100 - abs(100 - len(values) * 10))) *)
confidence(n) == Min2(100, Max2(50, 100 - Abs(100 - n * 10)))

(* date_cols: the object columns whose head() parses as dates *)
RECURSIVE date_cols_from(_, _)
date_cols_from(d, i) ==
    IF i > Len(d.objs) THEN <<>>
    ELSE (IF d.objs[i].head_is_date THEN <<i>> ELSE <<>>) \o date_cols_from(d, i + 1)

date_cols(d) == date_cols_from(d, 1)

(* the try body of one (date_col, metric_col) pair raises: the full date   *)
(* column does not parse, or indexing the metric does not yield a Series   *)
trend_pair_raises(d, date_col, m) ==
    \/ ~ d.objs[date_col].all_dates
    \/ d.nums[m].raises

trend_unit(d, date_col, m) ==
    LET c == d.nums[m]
    IN  IF trend_pair_raises(d, date_col, m) THEN <<>>
        ELSE IF c.n >= 3
        THEN << [metric |-> m,
                 date_col |-> date_col,
                 direction |-> trend_direction(c.first, c.last),
                 overall_change_pct |-> change_pct(c.first, c.last),
                 latest_period_change_pct |-> change_pct(c.prev, c.last),
                 confidence |-> confidence(c.n)] >>
        ELSE <<>>

RECURSIVE trend_loop(_, _, _, _)
trend_loop(d, date_col, m, last) ==
    IF m > last THEN <<>>
    ELSE trend_unit(d, date_col, m) \o trend_loop(d, date_col, m + 1, last)

detect_trends(d) ==
    LET dc == date_cols(d)
    IN  IF dc # <<>> /\ d.nums # <<>>
        THEN trend_loop(d, dc[1], 1, Min2(3, Len(d.nums)))
        ELSE <<>>

----------------------------------------------------------------------------
(* detect_outliers: the quantiles and the fences are pandas' work; a       *)
(* column carries the number of its values outside the fences              *)

outlier_unit(d, m) ==
    LET c == d.nums[m]
    IN  IF c.raises THEN <<>>
        ELSE IF c.outl > 0
        THEN << [column |-> m,
                 outlier_count |-> c.outl,
                 outlier_percentage |-> RoundDiv(c.outl * 1000, d.nrows)] >>
        ELSE <<>>

RECURSIVE outlier_loop(_, _, _)
outlier_loop(d, m, last) ==
    IF m > last THEN <<>>
    ELSE outlier_unit(d, m) \o outlier_loop(d, m + 1, last)

detect_outliers(d) == outlier_loop(d, 1, Min2(5, Len(d.nums)))

----------------------------------------------------------------------------
(* analyze_correlations                                                    *)

(* generate_correlation_insight: the parts of the templated sentence;      *)
(* r2 is the coefficient as formatted by :.2f, in units of 1/100           *)
generate_correlation_insight(col1, col2, corr_value) ==
    [x |-> col1,
     y |-> col2,
     strength |-> IF Abs(corr_value) >= 7000 THEN "strongly" ELSE "moderately",
     direction |-> IF corr_value > 0 THEN "increases" ELSE "decreases",
     r2 |-> RoundDiv(corr_value, 100)]

(* the (i, j) pairs of the nested loops, in iteration order *)
RECURSIVE pairs_from(_, _, _)
pairs_from(i, j, n) ==
    IF i >= n THEN <<>>
    ELSE IF j > n THEN pairs_from(i + 1, i + 2, n)
    ELSE << <<i, j>> >> \o pairs_from(i, j + 1, n)

(* corr_matrix.loc[col1, col2] is not a scalar (a label of the pair is     *)
(* duplicated), so that `if abs(corr_value) >= 0.5` raises ValueError      *)
corr_pair_raises(d, p) == d.nums[p[1]].raises \/ d.nums[p[2]].raises

(* abs(corr_value) >= 0.5 is False for NaN *)
corr_significant(e) == ~ e.nan /\ Abs(e.r) >= 5000

corr_entry(p, e) ==
    [variable_x |-> p[1],
     variable_y |-> p[2],
     correlation |-> RoundDiv(e.r, 10),
     strength |-> IF Abs(e.r) >= 7000 THEN "strong" ELSE "moderate",
     direction |-> IF e.r > 0 THEN "positive" ELSE "negative",
     business_insight |-> generate_correlation_insight(p[1], p[2], e.r)]

(* the two nested loops inside the single try: the first raising pair      *)
(* leaves the loops and skips the sort                                     *)
RECURSIVE corr_loop(_, _, _)
corr_loop(d, pairs, acc) ==
    IF pairs = <<>> THEN [list |-> acc, raised |-> FALSE]
    ELSE LET p == Head(pairs)
         IN  IF corr_pair_raises(d, p) THEN [list |-> acc, raised |-> TRUE]
             ELSE corr_loop(d, Tail(pairs),
                            IF corr_significant(d.corr[p])
                            THEN Append(acc, corr_entry(p, d.corr[p]))
                            ELSE acc)

(* list.sort(key=lambda x: abs(x["correlation"]), reverse=True): stable,   *)
(* equal keys keep their order                                             *)
RECURSIVE insert_desc(_, _)
insert_desc(sorted, x) ==
    IF sorted = <<>> THEN <<x>>
    ELSE IF Abs(Head(sorted).correlation) >= Abs(x.correlation)
         THEN <<Head(sorted)>> \o insert_desc(Tail(sorted), x)
         ELSE <<x>> \o sorted

(* the sort left out *)
sort_skipped(s) == s

RECURSIVE sort_abs_desc(_)
sort_abs_desc(s) ==
    IF s = <<>> THEN <<>>
    ELSE insert_desc(sort_abs_desc(SubSeq(s, 1, Len(s) - 1)), s[Len(s)])

analyze_correlations(d) ==
    IF Len(d.nums) >= 2
    THEN LET res == corr_loop(d, pairs_from(1, 2, Len(d.nums)), <<>>)
         IN  Take(IF res.raised THEN res.list ELSE sort_abs_desc(res.list), 5)
    ELSE <<>>

----------------------------------------------------------------------------
(* analyze_segments                                                        *)

(* value_counts.head(5), each with round((count / len(df)) * 100, 1) *)
RECURSIVE category_list(_, _, _)
category_list(counts, k, nrows) ==
    IF k > Min2(5, Len(counts)) THEN <<>>
    ELSE << [name |-> k,
             count |-> counts[k],
             percentage |-> RoundDiv(counts[k] * 1000, nrows)] >>
         \o category_list(counts, k + 1, nrows)

(* df.select_dtypes(include=['object']).columns: every object column, the  *)
(* ones that parse as dates included                                       *)
categorical_cols(d) == [i \in 1..Len(d.objs) |-> i]

categorical_unit(d, col) ==
    LET value_counts == d.objs[col].counts
    IN  IF 2 <= Len(value_counts) /\ Len(value_counts) <= 10
        THEN << [type |-> "categorical",
                 segment_by |-> col,
                 segments |-> category_list(value_counts, 1, d.nrows)] >>
        ELSE <<>>

RECURSIVE categorical_loop(_, _, _)
categorical_loop(d, col, last) ==
    IF col > last THEN <<>>
    ELSE categorical_unit(d, col) \o categorical_loop(d, col + 1, last)

(* the clustering try block: d.complete rows survive dropna() over the     *)
(* first three numeric columns; the cluster sizes are KMeans' result       *)
RECURSIVE cluster_list(_, _, _)
cluster_list(sizes, k, total) ==
    IF k > Len(sizes) THEN <<>>
    ELSE (IF sizes[k] > 0
          THEN << [cluster_id |-> k - 1,
                   size |-> sizes[k],
                   percentage |-> RoundDiv(sizes[k] * 1000, total)] >>
          ELSE <<>>)
         \o cluster_list(sizes, k + 1, total)

numeric_clusters(d) ==
    IF Len(d.nums) >= 2 /\ d.nrows >= 10
    THEN IF d.kmeans_raises THEN <<>>
         ELSE IF d.complete >= 10
         THEN << [type |-> "numeric_clusters",
                  cluster_method |-> "kmeans",
                  features_used |-> Min2(3, Len(d.nums)),
                  clusters |-> cluster_list(d.cluster_sizes, 1, d.complete)] >>
         ELSE <<>>
    ELSE <<>>

analyze_segments(d, has_scipy) ==
    IF ~ has_scipy THEN <<>>
    ELSE categorical_loop(d, 1, Len(Take(categorical_cols(d), 3)))
         \o numeric_clusters(d)

----------------------------------------------------------------------------
(* calculate_data_quality_score                                            *)
(* A float is [nan, num, den] with den > 0: the score is a rational until  *)
(* int() truncates it.                                                     *)

Float(n, dn) == [nan |-> FALSE, num |-> n, den |-> dn]

NaN == [nan |-> TRUE, num |-> 0, den |-> 1]

(* numpy scalar / int: 0 / 0 is nan with a (suppressed) warning, no raise;  *)
(* the numerator is 0 whenever the frame has no cell                        *)
np_divide(a, b) == IF b = 0 THEN NaN ELSE Float(a, b)

float_lt(x, y) == ~ x.nan /\ ~ y.nan /\ x.num * y.den < y.num * x.den

(* min with its arguments swapped, min(missing_pct * 2, 40): nan wins *)
py_min_swapped(a, b) == IF float_lt(a, b) THEN a ELSE b

(* Python's min(a, b): b if b < a else a, so that min(40, nan) is 40 *)
py_min(a, b) == IF float_lt(b, a) THEN b ELSE a

float_scale(x, k) == IF x.nan THEN NaN ELSE Float(x.num * k, x.den)

float_sub(x, y) ==
    IF x.nan \/ y.nan THEN NaN
    ELSE Float(x.num * y.den - y.num * x.den, x.den * y.den)

float_add_int(x, k) == IF x.nan THEN NaN ELSE Float(x.num + k * x.den, x.den)

(* int(score): truncation toward zero; int(nan) raises ValueError *)
py_int(x) ==
    IF x.nan THEN [raised |-> TRUE, value |-> 0]
    ELSE [raised |-> FALSE,
          value |-> IF x.num >= 0 THEN x.num \div x.den
                    ELSE -((-x.num) \div x.den)]

column_count(d) == Len(d.objs) + Len(d.nums) + d.others

RECURSIVE nulls_of(_)
nulls_of(cols) == IF cols = <<>> THEN 0 ELSE Head(cols).nulls + nulls_of(Tail(cols))

(* df.isnull().sum().sum() *)
missing_total(d) == nulls_of(d.objs) + nulls_of(d.nums) + d.other_nulls

(* (df.isnull().sum().sum() / (len(df) * len(df.columns))) * 100 *)
missing_pct(d) ==
    float_scale(np_divide(missing_total(d), d.nrows * column_count(d)), 100)

(* max(0, min(100, int(score))) *)
clamp_score(v) == Max2(0, Min2(100, v))

calculate_data_quality_score(d) ==
    LET s0 == Float(100, 1)
        s1 == float_sub(s0, py_min(Float(40, 1), float_scale(missing_pct(d), 2)))
        s2 == IF d.nrows >= 100 THEN float_add_int(s1, 5)
              ELSE IF d.nrows < 10 THEN float_add_int(s1, -20)
              ELSE s1
        s3 == IF Len(d.nums) >= 2 /\ Len(categorical_cols(d)) >= 1
              THEN float_add_int(s2, 10) ELSE s2
        s4 == IF column_count(d) > 20 THEN float_add_int(s3, -10) ELSE s3
        i  == py_int(s4)
    IN  IF i.raised THEN [raised |-> TRUE, score |-> 0]
        ELSE [raised |-> FALSE, score |-> clamp_score(i.value)]

----------------------------------------------------------------------------
(* analyze_dataframe: basic statistics and the synthesis of the insights   *)

basic_statistics(d) ==
    [row_count |-> d.nrows,
     column_count |-> column_count(d),
     numeric_columns |-> Len(d.nums),
     categorical_columns |-> Len(categorical_cols(d)),
     missing_values_total |-> missing_total(d),
     missing_percentage |->
        LET m == missing_pct(d)
        IN  IF m.nan THEN NaN ELSE Float(RoundDiv(m.num * 100, m.den), 100)]

(* max(seq, key=lambda x: x[field]): the first maximal element *)
RECURSIVE max_by_pct(_, _)
max_by_pct(s, best) ==
    IF s = <<>> THEN best
    ELSE max_by_pct(Tail(s), IF Head(s).pct > best.pct THEN Head(s) ELSE best)

RECURSIVE growth_filter(_)
growth_filter(ts) ==
    IF ts = <<>> THEN <<>>
    ELSE (IF Head(ts).direction = "growth" /\ Head(ts).overall_change_pct > 100
          THEN << [pct |-> Head(ts).overall_change_pct, item |-> Head(ts)] >>
          ELSE <<>>)
         \o growth_filter(Tail(ts))

growth_insight(ts) ==
    LET growth_trends == growth_filter(ts)
    IN  IF growth_trends = <<>> THEN <<>>
        ELSE LET best_growth == max_by_pct(Tail(growth_trends), Head(growth_trends)).item
             IN  << [type |-> "growth_opportunity",
                     subject |-> <<best_growth.metric>>,
                     value |-> best_growth.overall_change_pct,
                     business_impact |-> "high",
                     slide_recommendation |-> "metrics_performance"] >>

RECURSIVE strong_filter(_)
strong_filter(cs) ==
    IF cs = <<>> THEN <<>>
    ELSE (IF Head(cs).strength = "strong" THEN <<Head(cs)>> ELSE <<>>)
         \o strong_filter(Tail(cs))

relationship_insight(cs) ==
    LET strong_corr == strong_filter(cs)
    IN  IF strong_corr = <<>> THEN <<>>
        ELSE << [type |-> "relationship_discovery",
                 subject |-> <<strong_corr[1].variable_x, strong_corr[1].variable_y>>,
                 value |-> strong_corr[1].business_insight.r2,
                 business_impact |-> "medium",
                 slide_recommendation |-> "correlation_analysis"] >>

RECURSIVE category_pcts(_)
category_pcts(cats) ==
    IF cats = <<>> THEN <<>>
    ELSE << [pct |-> Head(cats).percentage, item |-> Head(cats)] >>
         \o category_pcts(Tail(cats))

(* a scan without the break: every qualifying categorical segment emits *)
RECURSIVE segment_insight_no_break(_)
segment_insight_no_break(segs) ==
    IF segs = <<>> THEN <<>>
    ELSE LET segment == Head(segs)
         IN  (IF segment.type = "categorical" /\ Len(segment.segments) >= 2
              THEN LET ps == category_pcts(segment.segments)
                       largest_segment == max_by_pct(Tail(ps), Head(ps)).item
                   IN  IF largest_segment.percentage >= 400
                       THEN << [type |-> "market_segmentation",
                                subject |-> <<segment.segment_by>>,
                                value |-> largest_segment.percentage,
                                business_impact |-> "medium",
                                slide_recommendation |-> "segment_breakdown"] >>
                       ELSE <<>>
              ELSE <<>>)
             \o segment_insight_no_break(Tail(segs))

(* the `for segment in segments` loop: the break sits under the first if,  *)
(* so the first categorical segment ends the scan whether or not its       *)
(* largest category reaches 40%                                            *)
RECURSIVE segment_insight(_)
segment_insight(segs) ==
    IF segs = <<>> THEN <<>>
    ELSE LET segment == Head(segs)
         IN  IF segment.type = "categorical" /\ Len(segment.segments) >= 2
             THEN LET ps == category_pcts(segment.segments)
                      largest_segment == max_by_pct(Tail(ps), Head(ps)).item
                  IN  IF largest_segment.percentage >= 400
                      THEN << [type |-> "market_segmentation",
                               subject |-> <<segment.segment_by>>,
                               value |-> largest_segment.percentage,
                               business_impact |-> "medium",
                               slide_recommendation |-> "segment_breakdown"] >>
                      ELSE <<>>
             ELSE segment_insight(Tail(segs))

key_insights_of(ts, cs, segs) ==
    growth_insight(ts) \o relationship_insight(cs) \o segment_insight(segs)

(* min(8, max(4, len(key_insights) + 2)) *)
total_slides_suggested(n) == Min2(8, Max2(4, n + 2))

(* the correlation branch tested before the growth branch *)
determine_narrative_arc_corr_first(ts, cs, segs) ==
    IF cs # <<>> /\ Len(cs) >= 2 THEN "relationship_analysis"
    ELSE IF ts # <<>> /\ \E i \in 1..Len(ts) : ts[i].direction = "growth"
    THEN "growth_story"
    ELSE IF segs # <<>> /\ Len(segs) >= 1 THEN "segmentation_insights"
    ELSE "data_summary"

determine_narrative_arc(ts, cs, segs) ==
    IF ts # <<>> /\ \E i \in 1..Len(ts) : ts[i].direction = "growth"
    THEN "growth_story"
    ELSE IF cs # <<>> /\ Len(cs) >= 2 THEN "relationship_analysis"
    ELSE IF segs # <<>> /\ Len(segs) >= 1 THEN "segmentation_insights"
    ELSE "data_summary"

recommend_chart_types(ts, cs, segs) ==
    LET c1 == IF ts # <<>> THEN <<"line">> ELSE <<>>
        c2 == IF cs # <<>> THEN Append(c1, "scatter") ELSE c1
        c3 == IF segs # <<>> /\ \E i \in 1..Len(segs) : segs[i].type = "categorical"
              THEN c2 \o <<"bar", "donut">> ELSE c2
        c4 == Append(c3, "metrics_cards")
        c5 == IF c4 = <<>> THEN <<"bar", "line">> ELSE c4
    IN  Take(c5, 4)

analysis_result(d, stats, ts, outs, cs, segs, score) ==
    LET key_insights == key_insights_of(ts, cs, segs)
    IN  [basic_statistics |-> stats,
         data_quality_score |-> score,
         trends |-> ts,
         outliers |-> outs,
         correlations |-> cs,
         segments |-> segs,
         key_insights |-> key_insights,
         slide_recommendations |->
            [total_slides_suggested |-> total_slides_suggested(Len(key_insights)),
             narrative_arc |-> determine_narrative_arc(ts, cs, segs),
             chart_types_recommended |-> recommend_chart_types(ts, cs, segs)]]

----------------------------------------------------------------------------
(* Input domains                                                           *)

MaxObj == 2
MaxNum == 3
MaxCorrCols == 4
MaxPoints == 4
MaxQualCols == 2

SeqsUpTo(S, k) == UNION { [1..m -> S] : m \in 0..k }

PairSet(n) == { p \in (1..n) \X (1..n) : p[1] < p[2] }

Entry(r) == [nan |-> FALSE, r |-> r]

NanEntry == [nan |-> TRUE, r |-> 0]

ObjCol(isdate, parses, counts, nulls) ==
    [head_is_date |-> isdate, all_dates |-> parses, counts |-> counts, nulls |-> nulls]

NumCol(nulls, n, first, prev, last, outl, raises) ==
    [nulls |-> nulls, n |-> n, first |-> first, prev |-> prev, last |-> last,
     outl |-> outl, raises |-> raises]

(* rows surviving dropna() over the first three numeric columns, taking    *)
(* the nulls of different columns to sit in different rows                 *)
CompleteRows(nrows, nums) == Max2(0, nrows - nulls_of(Take(nums, 3)))

MkDf(nrows, objs, nums, others, other_nulls, corr, kmeans_raises) ==
    [nrows |-> nrows, objs |-> objs, nums |-> nums, others |-> others,
     other_nulls |-> other_nulls, corr |-> corr,
     kmeans_raises |-> kmeans_raises,
     complete |-> CompleteRows(nrows, nums),
     cluster_sizes |-> LET c == CompleteRows(nrows, nums)
                       IN  IF c >= 3 THEN <<c - 2, 1, 1>> ELSE <<c, 0, 0>>]

(* The pipeline's datasets: no rows, or twenty rows.  An empty object      *)
(* column parses as dates (pd.to_datetime of an empty Series succeeds).    *)
RowCounts == {0, 20}

ObjProfiles(nrows) ==
    IF nrows = 0 THEN { ObjCol(TRUE, TRUE, <<>>, 0) }
    ELSE { ObjCol(FALSE, FALSE, <<7, 7, 6>>, 0),
           ObjCol(FALSE, FALSE, <<16, 4>>, 0),
           ObjCol(FALSE, FALSE, <<10, 1, 1, 1, 1, 1, 1, 1, 1, 1, 1>>, 0),
           ObjCol(TRUE, TRUE, <<8, 4>>, 8) }

GrowthCol == NumCol(0, 12, 100, 150, 200, 0, FALSE)

FlatCol == NumCol(2, 12, 100, 100, 103, 1, FALSE)

EmptyCol == NumCol(0, 0, 0, 0, 0, 0, FALSE)

(* numeric columns: all flat, or one of them growing *)
NumSeqs(nrows, k) ==
    IF nrows = 0 THEN { [i \in 1..m |-> EmptyCol] : m \in 0..k }
    ELSE UNION { { [i \in 1..m |-> IF i = g THEN GrowthCol ELSE FlatCol] :
                   g \in 0..m } : m \in 0..k }

PipelineCorr == { NanEntry, Entry(5996), Entry(-8004) }

(* a matrix with entry a for the pair (1, 2) and b for every other pair *)
PatternMatrix(n, a, b) == [p \in PairSet(n) |-> IF p = <<1, 2>> THEN a ELSE b]

PatternMatrices(n) ==
    IF n < 2 THEN { PatternMatrix(n, NanEntry, NanEntry) }
    ELSE IF n = 2 THEN { PatternMatrix(n, a, NanEntry) : a \in PipelineCorr }
    ELSE { PatternMatrix(n, a, b) : a \in PipelineCorr, b \in {NanEntry, Entry(-8004)} }

Thresholds == {50, 90}

NoReport == [basic_statistics |-> <<>>]

----------------------------------------------------------------------------
(* The pipeline                                                            *)

Pipeline == {"main", "analyze_dataframe"}

(* where control goes after a step: on inside analyze_dataframe, back to   *)
(* the caller when the analyzer was called on its own                      *)
After(next) == IF entry \in Pipeline THEN next ELSE "done"

(* main, up to the call of analyze_dataframe: read_csv raises              *)
(* FileNotFoundError or EmptyDataError (no columns to parse), and a frame  *)
(* without rows is refused                                                 *)
MainLoad ==
    /\ pc = "main"
    /\ pc' = IF csv_exists /\ column_count(df) > 0 /\ df.nrows > 0
             THEN "basic" ELSE "done"
    /\ outcome' = IF ~ csv_exists THEN "error_csv_not_found"
                  ELSE IF column_count(df) = 0 THEN "error_empty_or_invalid"
                  ELSE IF df.nrows = 0 THEN "error_empty"
                  ELSE outcome
    /\ UNCHANGED service_vars
    /\ UNCHANGED <<df, HAS_SCIPY, entry, csv_exists, quality_threshold, ran,
                   basic_stats, trends, outliers, correlations, segments,
                   quality_score, report>>

BasicStats ==
    /\ pc = "basic"
    /\ basic_stats' = basic_statistics(df)
    /\ pc' = "trends"
    /\ UNCHANGED service_vars
    /\ UNCHANGED <<df, HAS_SCIPY, entry, csv_exists, quality_threshold, ran,
                   trends, outliers, correlations, segments, quality_score,
                   report, outcome>>

DetectTrends ==
    /\ pc = "trends"
    /\ trends' = detect_trends(df)
    /\ ran' = ran \cup {"detect_trends"}
    /\ pc' = After("outliers")
    /\ UNCHANGED service_vars
    /\ UNCHANGED <<df, HAS_SCIPY, entry, csv_exists, quality_threshold,
                   basic_stats, outliers, correlations, segments,
                   quality_score, report, outcome>>

DetectOutliers ==
    /\ pc = "outliers"
    /\ outliers' = detect_outliers(df)
    /\ ran' = ran \cup {"detect_outliers"}
    /\ pc' = After("correlations")
    /\ UNCHANGED service_vars
    /\ UNCHANGED <<df, HAS_SCIPY, entry, csv_exists, quality_threshold,
                   basic_stats, trends, correlations, segments,
                   quality_score, report, outcome>>

AnalyzeCorrelations ==
    /\ pc = "correlations"
    /\ correlations' = analyze_correlations(df)
    /\ ran' = ran \cup {"analyze_correlations"}
    /\ pc' = After("segments")
    /\ UNCHANGED service_vars
    /\ UNCHANGED <<df, HAS_SCIPY, entry, csv_exists, quality_threshold,
                   basic_stats, trends, outliers, segments, quality_score,
                   report, outcome>>

AnalyzeSegments ==
    /\ pc = "segments"
    /\ segments' = analyze_segments(df, HAS_SCIPY)
    /\ ran' = ran \cup {"analyze_segments"}
    /\ pc' = After("quality")
    /\ UNCHANGED service_vars
    /\ UNCHANGED <<df, HAS_SCIPY, entry, csv_exists, quality_threshold,
                   basic_stats, trends, outliers, correlations,
                   quality_score, report, outcome>>

(* an exception of calculate_data_quality_score is caught by nobody but    *)
(* main's `except Exception`                                               *)
CalculateQuality ==
    /\ pc = "quality"
    /\ LET q == calculate_data_quality_score(df)
       IN  /\ quality_score' = IF q.raised THEN quality_score ELSE q.score
           /\ pc' = IF q.raised THEN "done" ELSE After("synthesize")
           /\ outcome' = IF q.raised
                         THEN (IF entry = "main" THEN "error_analysis_failed"
                               ELSE "raised")
                         ELSE IF entry \in Pipeline THEN outcome
                         ELSE "returned"
    /\ ran' = ran \cup {"calculate_data_quality_score"}
    /\ UNCHANGED service_vars
    /\ UNCHANGED <<df, HAS_SCIPY, entry, csv_exists, quality_threshold,
                   basic_stats, trends, outliers, correlations, segments,
                   report>>

(* the rest of analyze_dataframe: the insights and the returned report *)
Synthesize ==
    /\ pc = "synthesize"
    /\ report' = analysis_result(df, basic_stats, trends, outliers,
                                 correlations, segments, quality_score)
    /\ pc' = IF entry = "main" THEN "threshold" ELSE "done"
    /\ outcome' = IF entry = "main" THEN outcome ELSE "report"
    /\ UNCHANGED service_vars
    /\ UNCHANGED <<df, HAS_SCIPY, entry, csv_exists, quality_threshold, ran,
                   basic_stats, trends, outliers, correlations, segments,
                   quality_score>>

(* main after analyze_dataframe: the quality threshold, then the output *)
MainOutput ==
    /\ pc = "threshold"
    /\ outcome' = IF report.data_quality_score < quality_threshold
                  THEN "error_quality_below_threshold"
                  ELSE "report_printed"
    /\ pc' = "done"
    /\ UNCHANGED service_vars
    /\ UNCHANGED <<df, HAS_SCIPY, entry, csv_exists, quality_threshold, ran,
                   basic_stats, trends, outliers, correlations, segments,
                   quality_score, report>>

Start(dataset, entries) ==
    /\ entry \in entries
    /\ df = dataset
    /\ HAS_SCIPY \in IF entry \in Pipeline THEN BOOLEAN ELSE {TRUE}
    /\ csv_exists \in IF entry = "main" THEN BOOLEAN ELSE {TRUE}
    /\ quality_threshold \in IF entry = "main" /\ HAS_SCIPY THEN Thresholds ELSE {50}
    /\ pc = CASE entry = "main" -> "main"
              [] entry = "analyze_dataframe" -> "basic"
              [] entry = "detect_trends" -> "trends"
              [] entry = "analyze_correlations" -> "correlations"
              [] entry = "calculate_data_quality_score" -> "quality"
    /\ ran = {}
    /\ basic_stats = <<>>
    /\ trends = <<>>
    /\ outliers = <<>>
    /\ correlations = <<>>
    /\ segments = <<>>
    /\ quality_score = -1
    /\ report = NoReport
    /\ outcome = "running"
    /\ Gcf = <<>>
    /\ figures = <<>>
    /\ calls = <<>>

(* read_csv renames duplicated labels, so main never sees one; a missing   *)
(* file has no content to vary                                             *)
MainReadable ==
    entry = "main" =>
        /\ \A i \in 1..Len(df.nums) : ~ df.nums[i].raises
        /\ csv_exists \/ (df.nrows = 0 /\ column_count(df) = 0)

Init ==
    /\ \E nrows \in RowCounts :
       \E objs \in SeqsUpTo(ObjProfiles(nrows), MaxObj) :
       \E nums \in NumSeqs(nrows, MaxNum) :
       \E corr \in PatternMatrices(Len(nums)) :
       \E k \in IF Len(nums) >= 2 /\ nrows >= 10 THEN BOOLEAN ELSE {FALSE} :
          Start(MkDf(nrows, objs, nums, 0, 0, corr, k), Pipeline)
    /\ MainReadable

Next ==
    \/ MainLoad
    \/ BasicStats
    \/ DetectTrends
    \/ DetectOutliers
    \/ AnalyzeCorrelations
    \/ AnalyzeSegments
    \/ CalculateQuality
    \/ Synthesize
    \/ MainOutput

Spec == Init /\ [][Next]_vars

----------------------------------------------------------------------------
(* Properties of the pipeline, checked under Spec                          *)

Range(s) == { s[i] : i \in 1..Len(s) }

(* analyze_dataframe has returned its report *)
Reported == "key_insights" \in DOMAIN report

Kinds(insights) == [i \in 1..Len(insights) |-> insights[i].type]

LargestPct(segment) ==
    CHOOSE p \in { c.percentage : c \in Range(segment.segments) } :
        \A c \in Range(segment.segments) : c.percentage <= p

Qualifies(segment) ==
    segment.type = "categorical" /\ LargestPct(segment) >= 400

(* C1: a market_segmentation insight is emitted for the first categorical  *)
(* segment, in list order, whose largest category holds at least 40% of    *)
(* the rows, also when earlier categorical segments do not qualify; none   *)
(* is emitted only if no categorical segment qualifies.                    *)
C1_FirstQualifyingSegmentWins ==
    Reported =>
        LET segs == report.segments
            qualifying == { i \in 1..Len(segs) : Qualifies(segs[i]) }
            emitted == { k \in Range(report.key_insights) :
                            k.type = "market_segmentation" }
        IN  IF qualifying = {} THEN emitted = {}
            ELSE LET first == CHOOSE i \in qualifying :
                                  \A j \in qualifying : i <= j
                 IN  \E k \in emitted :
                        /\ k.subject = <<segs[first].segment_by>>
                        /\ k.value = LargestPct(segs[first])

(* C2: every column has one type and all analyzers see the same one: the   *)
(* column detect_trends uses as the date column is not a categorical       *)
(* column for analyze_segments, for calculate_data_quality_score or for    *)
(* the basic statistics of the same run.                                   *)
C2_OneTypePerColumn ==
    Reported =>
        \A t \in Range(report.trends) :
            /\ \A sg \in Range(report.segments) :
                  sg.type = "categorical" => sg.segment_by # t.date_col
            /\ t.date_col \notin Range(categorical_cols(df))
            /\ report.basic_statistics.categorical_columns
                  <= Len(df.objs) - 1

EmptyDataset == df.nrows = 0 \/ column_count(df) = 0

(* C4: on a dataset without rows or without columns the run ends in the    *)
(* empty/invalid dataset error and no analyzer has run, from either entry  *)
(* point.                                                                  *)
C4_EmptyDatasetFailsFirst ==
    (EmptyDataset /\ csv_exists) =>
        /\ ran = {}
        /\ pc = "done" => outcome \in {"error_empty", "error_empty_or_invalid"}

(* C6: the recommended chart types always include metrics_cards. *)
C6_MetricsCardsAlwaysRecommended ==
    Reported =>
        "metrics_cards" \in Range(report.slide_recommendations.chart_types_recommended)

NoDateLikeColumn == \A c \in Range(df.objs) : ~ c.head_is_date

NoSegmentableColumn ==
    \A c \in Range(df.objs) : Len(c.counts) < 2 \/ Len(c.counts) > 10

(* C9: the narrative arc is growth_story if any trend grows, else          *)
(* relationship_analysis if there are at least two correlations, else      *)
(* segmentation_insights if there is a segment, else data_summary; a       *)
(* dataset with no date-like column, fewer than two numeric columns and    *)
(* no categorical column of 2 to 10 distinct values gets data_summary.     *)
C9_NarrativeArcPriority ==
    Reported =>
        LET arc == report.slide_recommendations.narrative_arc
        IN  /\ arc = IF \E t \in Range(report.trends) : t.direction = "growth"
                     THEN "growth_story"
                     ELSE IF Len(report.correlations) >= 2
                     THEN "relationship_analysis"
                     ELSE IF Len(report.segments) >= 1
                     THEN "segmentation_insights"
                     ELSE "data_summary"
            /\ (NoDateLikeColumn /\ Len(df.nums) < 2 /\ NoSegmentableColumn)
                  => arc = "data_summary"

(* a growing trend competes with two correlations and a segment *)
C9_Witness ==
    /\ Reported
    /\ \E t \in Range(report.trends) : t.direction = "growth"
    /\ Len(report.correlations) >= 2
    /\ Len(report.segments) >= 1
    /\ report.slide_recommendations.narrative_arc = "growth_story"

KindRank(k) ==
    CASE k = "growth_opportunity" -> 1
      [] k = "relationship_discovery" -> 2
      [] k = "market_segmentation" -> 3

(* C10: key_insights holds at most one insight of each kind, in the order  *)
(* growth_opportunity, relationship_discovery, market_segmentation, so at  *)
(* most three, and total_slides_suggested = clamp(count + 2, 4, 8) is 4    *)
(* or 5.                                                                   *)
C10_AtMostOneInsightPerKind ==
    Reported =>
        LET ks == Kinds(report.key_insights)
            n == Len(ks)
            slides == report.slide_recommendations.total_slides_suggested
        IN  /\ \A i \in 1..n : \A j \in 1..n :
                  i < j => KindRank(ks[i]) < KindRank(ks[j])
            /\ n <= 3
            /\ slides = (IF n + 2 < 4 THEN 4 ELSE IF n + 2 > 8 THEN 8 ELSE n + 2)
            /\ slides \in {4, 5}

(* all three insights are emitted, and two segments qualify *)
C10_Witness ==
    /\ Reported
    /\ Len(report.key_insights) = 3
    /\ Cardinality({ i \in 1..Len(report.segments) : Qualifies(report.segments[i]) }) >= 2
    /\ report.slide_recommendations.total_slides_suggested = 5

----------------------------------------------------------------------------
(* calculate_data_quality_score over dataset shapes                        *)

QualityRows == {0, 1, 9, 10, 99, 100}

NullCounts(nrows) == {0, Min2(1, nrows), nrows}

(* an object column without a value parses as dates: to_datetime gives NaT *)
ShapeObj(nrows, nulls) ==
    ObjCol(nulls = nrows, nulls = nrows,
           IF nrows > nulls THEN <<nrows - nulls>> ELSE <<>>, nulls)

ShapeNum(nrows, nulls) == NumCol(nulls, 0, 0, 0, 0, 0, FALSE)

NanMatrix(n) == [p \in PairSet(n) |-> NanEntry]

InitQuality ==
    \E nrows \in QualityRows :
    \E objs \in SeqsUpTo({ ShapeObj(nrows, k) : k \in NullCounts(nrows) }, MaxQualCols) :
    \E nums \in SeqsUpTo({ ShapeNum(nrows, k) : k \in NullCounts(nrows) }, MaxQualCols) :
    \E others \in {0, 21} :
    \E other_nulls \in {0, others * nrows} :
       Start(MkDf(nrows, objs, nums, others, other_nulls, NanMatrix(Len(nums)), FALSE),
             {"calculate_data_quality_score"})

SpecQuality == InitQuality /\ [][CalculateQuality]_vars

(* C3: calculate_data_quality_score returns an integer in [0, 100] and     *)
(* does not raise, whatever the shape: no rows, no columns, every cell     *)
(* missing, any mix of column types.                                       *)
C3_QualityScoreInRange ==
    pc = "done" => /\ outcome = "returned"
                   /\ quality_score \in 0..100

(* a frame without a cell is scored: 0 / 0 is nan and min(40, nan) is 40 *)
C3_Witness ==
    /\ pc = "done"
    /\ outcome = "returned"
    /\ df.nrows * column_count(df) = 0
    /\ column_count(df) > 20
    /\ quality_score = 30

----------------------------------------------------------------------------
(* analyze_correlations over correlation matrices                          *)

CorrValues == { Entry(2000), Entry(5996), Entry(-8004) }

(* g is the numeric column whose label is duplicated, 0 for none.  The     *)
(* columns have missing values, so corr() works on pairwise complete rows  *)
(* and its entries are not tied to one another.                            *)
CorrColumns(m, g) ==
    [i \in 1..m |-> NumCol(2, 12, 100, 100, 103, 0, i = g)]

InitCorr ==
    \E m \in 2..MaxCorrCols :
    \E g \in 0..m :
    \E corr \in [PairSet(m) -> CorrValues] :
       Start(MkDf(20, <<>>, CorrColumns(m, g), 0, 0, corr, FALSE),
             {"analyze_correlations"})

SpecCorr == InitCorr /\ [][AnalyzeCorrelations]_vars

NoLookupRaises == \A c \in Range(df.nums) : ~ c.raises

----------------------------------------------------------------------------
(* detect_trends over metric series                                        *)

MetricValues == {-4, -2, 0, 1, 2, 4, 20, 21, 40}

(* one date per row *)
DateColumn(nrows, parses) == ObjCol(TRUE, parses, [i \in 1..nrows |-> 1], 0)

TextColumn(nrows) == ObjCol(FALSE, FALSE, <<nrows>>, 0)

TrendObjs(nrows) ==
    { <<DateColumn(nrows, TRUE)>>,
      <<DateColumn(nrows, FALSE)>>,
      <<TextColumn(nrows), DateColumn(nrows, TRUE)>>,
      <<TextColumn(nrows)>> }

(* the metric under study sits at position k among m numeric columns *)
TrendColumns(m, k, c) ==
    [i \in 1..m |-> IF i = k THEN c ELSE NumCol(0, MaxPoints, 100, 100, 103, 0, FALSE)]

InitTrend ==
    \E objs \in TrendObjs(MaxPoints) :
    \E m \in 1..4 :
    \E k \in 1..m :
    \E n \in 0..MaxPoints :
    \E first \in MetricValues :
    \E last \in MetricValues :
    \E raises \in BOOLEAN :
       Start(MkDf(MaxPoints, objs,
                  TrendColumns(m, k, NumCol(MaxPoints - n, n, first, first, last, 0, raises)),
                  0, 0, NanMatrix(m), FALSE),
             {"detect_trends"})

SpecTrend == InitTrend /\ [][DetectTrends]_vars

(* the pair (first date column, metric m) is one detect_trends analyses,   *)
(* its dates parse, and it has at least 3 usable points                    *)
UsablePair(m) ==
    /\ date_cols(df) # <<>>
    /\ m \in 1..Min2(3, Len(df.nums))
    /\ df.objs[date_cols(df)[1]].all_dates
    /\ ~ df.nums[m].raises
    /\ df.nums[m].n >= 3

ReportedDoubling(m) ==
    \E t \in Range(trends) :
        /\ t.metric = m
        /\ t.direction = "growth"
        /\ t.overall_change_pct = 1000

(* C8, as amended: for a pair with at least 3 usable points whose first    *)
(* value is positive and whose last value is twice the first, the trend    *)
(* has direction growth and overall_change_pct 100.0.                      *)
C8_PositiveDoublingIsGrowth ==
    pc = "done" =>
        \A m \in 1..Len(df.nums) :
            (UsablePair(m) /\ df.nums[m].first > 0
                           /\ df.nums[m].last = 2 * df.nums[m].first)
                => ReportedDoubling(m)

(* C8, as claimed: for a pair with at least 3 usable points whose last     *)
(* value is twice the first, the trend has direction growth and            *)
(* overall_change_pct 100.0.                                               *)
C8_DoublingIsGrowth ==
    pc = "done" =>
        \A m \in 1..Len(df.nums) :
            (UsablePair(m) /\ df.nums[m].last = 2 * df.nums[m].first)
                => ReportedDoubling(m)

(* the third metric doubles from 20 to 40 behind a leading text column *)
C8_Witness ==
    /\ pc = "done"
    /\ Len(df.objs) = 2
    /\ UsablePair(3)
    /\ df.nums[3].first = 20
    /\ df.nums[3].last = 40
    /\ ReportedDoubling(3)

----------------------------------------------------------------------------
(* The pipeline on frames with a duplicated column label                   *)

FaultColumns(m, g) ==
    [i \in 1..m |-> NumCol(2, 12, 100, 100, 103, 1, i = g)]

InitFaults ==
    /\ \E objs \in { <<ObjCol(TRUE, TRUE, <<8, 4>>, 8)>>,
                     <<ObjCol(TRUE, FALSE, <<8, 4>>, 8)>> } :
       \E m \in 3..4 :
       \E g \in 0..m :
       \E a \in { Entry(5996), Entry(-8004) } :
       \E b \in { Entry(5996), Entry(-8004) } :
          Start(MkDf(20, objs, FaultColumns(m, g), 0, 0, PatternMatrix(m, a, b), FALSE),
                Pipeline)
    /\ MainReadable

SpecFaults == InitFaults /\ [][Next]_vars

(* the pair loop with each pair in a try of its own *)
RECURSIVE isolated_pairs(_, _)
isolated_pairs(d, pairs) ==
    IF pairs = <<>> THEN <<>>
    ELSE LET p == Head(pairs)
         IN  (IF ~ corr_pair_raises(d, p) /\ corr_significant(d.corr[p])
              THEN <<corr_entry(p, d.corr[p])>> ELSE <<>>)
             \o isolated_pairs(d, Tail(pairs))

Increasing(s) == \A i \in 1..Len(s) : \A j \in 1..Len(s) : i < j => s[i] < s[j]

(* C7: a failing unit (one (date, metric) pair, one outlier column, one    *)
(* variable pair) is skipped alone: the analyzer returns the results of    *)
(* every unit that succeeded, ordered and capped as usual, and the         *)
(* pipeline does not fail.                                                 *)
C7_FailureSkipsOnlyItsUnit ==
    /\ "detect_trends" \in ran =>
          /\ \A m \in 1..Len(df.nums) :
                (UsablePair(m) <=> \E t \in Range(trends) : t.metric = m)
          /\ Increasing([i \in 1..Len(trends) |-> trends[i].metric])
    /\ "detect_outliers" \in ran =>
          /\ \A m \in 1..Len(df.nums) :
                (m <= 5 /\ ~ df.nums[m].raises /\ df.nums[m].outl > 0)
                    <=> \E o \in Range(outliers) : o.column = m
          /\ Increasing([i \in 1..Len(outliers) |-> outliers[i].column])
    /\ "analyze_correlations" \in ran =>
          correlations =
              Take(sort_abs_desc(isolated_pairs(df, pairs_from(1, 2, Len(df.nums)))), 5)
    /\ outcome \notin {"raised", "error_analysis_failed"}

----------------------------------------------------------------------------
(* The /analyze endpoint of python-service/main.py                         *)
(*                                                                         *)
(* analyze is a plain `def`, which FastAPI runs on a worker thread per     *)
(* request, so calls overlap.  All of them use the one pyplot module:      *)
(*   Gcf      the open figures in activation order, the last is current    *)
(*   figures  every Figure object created, by identity; figures[f] is the  *)
(*            set of requests whose code drew on f, empty when f has no    *)
(*            axes                                                         *)
(* A call carries its request (code, with data_csv reduced to whether      *)
(* read_csv accepts it), its position, the figure it took from gcf() and   *)
(* its response.  The caller's code is a sequence of statements:           *)
(*   "plot"    a pyplot drawing call such as plt.plot: draws on the        *)
(*             current figure, which is opened when there is none          *)
(*   "figure"  plt.figure(): opens a figure and makes it current           *)
(*   "raise"   any statement that raises                                   *)

MaxRequests == 2

MaxCodeLen == 2

Requests == 1..MaxRequests

Statements == {"plot", "figure", "raise"}

Codes == SeqsUpTo(Statements, MaxCodeLen)

NoCall ==
    [pc |-> "idle", code |-> <<>>, ip |-> 1, fig |-> 0, status |-> 0,
     chart_key |-> FALSE, chart |-> {}]

(* plt.gcf(): the current figure; with no figure open it opens one *)
gcf ==
    IF Gcf = <<>>
    THEN [Gcf |-> <<Len(figures) + 1>>, figures |-> Append(figures, {}),
          fig |-> Len(figures) + 1]
    ELSE [Gcf |-> Gcf, figures |-> figures, fig |-> Gcf[Len(Gcf)]]

(* plt.close(fig): fig leaves the registry, the figure opened before it    *)
(* becomes current; closing a figure that is not open does nothing         *)
close(fig) == SelectSeq(Gcf, LAMBDA f : f # fig)

(* the call after one statement of its code ran without raising *)
executed(c) ==
    [c EXCEPT !.ip = @ + 1,
              !.pc = IF c.ip + 1 > Len(c.code) THEN "gcf" ELSE "exec"]

statement(r) == calls[r].code[calls[r].ip]

(* a request arrives: read_csv either raises, which the except turns into  *)
(* a 400, or the call goes on to exec.  Requests are numbered in arrival   *)
(* order.                                                                  *)
Receive(r) ==
    /\ calls[r].pc = "idle"
    /\ IF r = 1 THEN TRUE ELSE calls[r - 1].pc # "idle"
    /\ \E csv_ok \in BOOLEAN :
          IF csv_ok
          THEN \E code \in Codes :
                  calls' = [calls EXCEPT ![r].code = code,
                                         ![r].pc = IF code = <<>> THEN "gcf"
                                                   ELSE "exec"]
          ELSE calls' = [calls EXCEPT ![r].pc = "done", ![r].status = 400]
    /\ UNCHANGED <<Gcf, figures>>
    /\ UNCHANGED pipeline_vars

(* exec reaches a drawing statement *)
Plot(r) ==
    /\ calls[r].pc = "exec"
    /\ statement(r) = "plot"
    /\ Gcf' = gcf.Gcf
    /\ figures' = [gcf.figures EXCEPT ![gcf.fig] = @ \cup {r}]
    /\ calls' = [calls EXCEPT ![r] = executed(@)]
    /\ UNCHANGED pipeline_vars

(* exec reaches plt.figure() *)
Figure(r) ==
    /\ calls[r].pc = "exec"
    /\ statement(r) = "figure"
    /\ Gcf' = Append(Gcf, Len(figures) + 1)
    /\ figures' = Append(figures, {})
    /\ calls' = [calls EXCEPT ![r] = executed(@)]
    /\ UNCHANGED pipeline_vars

(* exec reaches a statement that raises: the except returns the 400, and   *)
(* nothing is closed                                                       *)
Raise(r) ==
    /\ calls[r].pc = "exec"
    /\ statement(r) = "raise"
    /\ calls' = [calls EXCEPT ![r].pc = "done", ![r].status = 400]
    /\ UNCHANGED <<Gcf, figures>>
    /\ UNCHANGED pipeline_vars

(* fig = plt.gcf() *)
GetCurrentFigure(r) ==
    /\ calls[r].pc = "gcf"
    /\ Gcf' = gcf.Gcf
    /\ figures' = gcf.figures
    /\ calls' = [calls EXCEPT ![r].fig = gcf.fig, ![r].pc = "get_axes"]
    /\ UNCHANGED pipeline_vars

(* if fig.get_axes(): without axes the results are returned as they are,   *)
(* and fig stays open                                                      *)
GetAxes(r) ==
    /\ calls[r].pc = "get_axes"
    /\ calls' = IF figures[calls[r].fig] = {}
                THEN [calls EXCEPT ![r].pc = "done", ![r].status = 200]
                ELSE [calls EXCEPT ![r].pc = "savefig"]
    /\ UNCHANGED <<Gcf, figures>>
    /\ UNCHANGED pipeline_vars

(* fig.savefig(...) and results["chart"]: the image shows what is on fig   *)
(* at this moment                                                          *)
Savefig(r) ==
    /\ calls[r].pc = "savefig"
    /\ calls' = [calls EXCEPT ![r].chart_key = TRUE,
                              ![r].chart = figures[calls[r].fig],
                              ![r].pc = "close"]
    /\ UNCHANGED <<Gcf, figures>>
    /\ UNCHANGED pipeline_vars

(* plt.close(fig) and return results *)
Close(r) ==
    /\ calls[r].pc = "close"
    /\ Gcf' = close(calls[r].fig)
    /\ calls' = [calls EXCEPT ![r].pc = "done", ![r].status = 200]
    /\ UNCHANGED figures
    /\ UNCHANGED pipeline_vars

(* the service has just started and no figure is open; the pipeline is not *)
(* part of this process                                                    *)
InitService ==
    /\ Gcf = <<>>
    /\ figures = <<>>
    /\ calls = [r \in Requests |-> NoCall]
    /\ entry = "analyze"
    /\ \E corr \in PatternMatrices(0) :
          df = MkDf(0, <<>>, <<>>, 0, 0, corr, FALSE)
    /\ HAS_SCIPY = TRUE
    /\ csv_exists = TRUE
    /\ quality_threshold = 50
    /\ pc = "done"
    /\ ran = {}
    /\ basic_stats = <<>>
    /\ trends = <<>>
    /\ outliers = <<>>
    /\ correlations = <<>>
    /\ segments = <<>>
    /\ quality_score = -1
    /\ report = NoReport
    /\ outcome = "running"

NextService ==
    \E r \in Requests :
        \/ Receive(r)
        \/ Plot(r)
        \/ Figure(r)
        \/ Raise(r)
        \/ GetCurrentFigure(r)
        \/ GetAxes(r)
        \/ Savefig(r)
        \/ Close(r)

SpecService == InitService /\ [][NextService]_vars

(* the request was answered with the results of line 41 *)
Answered(r) == calls[r].pc = "done" /\ calls[r].status = 200

(* the code of the request has a drawing statement, which ran because      *)
(* the request was answered with results                                   *)
Drew(r) == "plot" \in Range(calls[r].code)

(* C11: the chart of a response holds only what the code of its own        *)
(* request drew: a request whose code draws nothing is answered without a  *)
(* "chart" key, and no chart shows axes that another request drew,         *)
(* whatever requests came before or ran at the same time.                  *)
C11_ChartIsOwnDrawingOnly ==
    \A r \in Requests :
        Answered(r) =>
            /\ ~ Drew(r) => ~ calls[r].chart_key
            /\ calls[r].chart_key => calls[r].chart \subseteq {r}

====
